---- MODULE Spec2Model ----
(***************************************************************************)
(* flashtool: erase/write of raw MTD NAND flash.                           *)
(*                                                                         *)
(* The module models main() of flashtool.c: the start-up window checks and *)
(* the block/page write loop with bad-block skipping, bad-block marking,   *)
(* rewind after a page failure and the --ubi trailing-FF skip, together    *)
(* with the MTD device it drives.  Offsets and lengths are bytes, as in    *)
(* the source.                                                             *)
(***************************************************************************)
EXTENDS Integers, Sequences, FiniteSets, TLC

(***************************************************************************)
(* Bounds of the model.  The geometry is scaled down: the code computes    *)
(* everything from mi.writesize and mi.erasesize, never from their values. *)
(***************************************************************************)
NumBlocks  == 3        \* eraseblocks of the device
BlockPages == 2        \* pages per eraseblock
PageBytes  == 2        \* bytes per page
MaxLen     == 4        \* size of the image file, in bytes
MaxFaults  == 2        \* device failures injected in one run

WriteSize == PageBytes                 \* mi.writesize
EraseSize == BlockPages * WriteSize    \* mi.erasesize
MiSize    == NumBlocks * EraseSize     \* mi.size
NumPages  == NumBlocks * BlockPages

FF == 255

\* genecc.c.  The subpage is scaled down; the field, the generator polynomial
\* and the OOB unit are those of the source.
K            == 2                    \* data bytes of a subpage
MAX_CORR_ERR == 4
S            == MAX_CORR_ERR
N            == K + 2 * MAX_CORR_ERR
LENGTH       == 1024
poly         == 1033                 \* 0x409
primelement  == 2
SubPages     == 4                    \* subpages of a page
OobUnit      == 16                   \* OOB bytes of a subpage
subsz_raw    == K + OobUnit
subsz_data   == K
pagesz_data  == SubPages * K
RawSize      == pagesz_data + SubPages * OobUnit   \* sizeof mtd_raw_buf
Uninit == -1                           \* a byte of the malloc'ed buffer never set

\* the byte a non-0xFF image byte at file position i (from 1) carries
DataByte(i) == i % 255

(***************************************************************************)
(* C arithmetic                                                            *)
(***************************************************************************)
\* a > b after the usual arithmetic conversions to 32-bit unsigned, with a
\* and b given as the two's complement values the operands have as ints
UGt(a, b) == IF (a < 0) = (b < 0) THEN a > b ELSE a < 0

\* x & (size - 1) for a power of two size
LowBits(x, size) == x % size

\* x & ~(size - 1) for a power of two size
AlignDown(x, size) == x - (x % size)

VARIABLES
    \* command line (handle_options) and geometry-derived values
    start_off, max_off, req_length, failbad, write_mode, erase_mode,
    legacy, dm365_rbl, ubi, genecc, req_pages, input_size,
    \* main()'s position and result
    pc, exit_code,
    \* main loop state
    block_off, bytes_done, block_bytes_done, rewind,
    start_page_num, page_num, write_pages,
    block_buf,
    \* the image file: the bytes read() has returned so far
    image,
    \* the device
    devbad, flash,
    \* history: the device calls and skipped pages, in order; the image
    \* position of each buffer byte; the number of failed device calls; the
    \* state at the last bad-block skip; whether the block in hand is a retry
    ops, buf_idx, faults, skip_at, retry,
    \* genecc.c: the Galois tables, the generator polynomial and the staging
    \* buffer; genecc_init's position and loop counter
    alpha, indx, gp, mtd_raw_buf, ecc_pc, ecc_i,
    \* the page handed to do_genecc and what write_page sent to the device
    ecc_src, nand_page

cfgvars  == <<start_off, max_off, req_length, failbad, write_mode, erase_mode,
              legacy, dm365_rbl, ubi, genecc, req_pages, input_size>>
loopvars == <<block_off, bytes_done, block_bytes_done, rewind,
              start_page_num, page_num, write_pages>>
bufvars  == <<block_buf, buf_idx, image>>
devvars  == <<devbad, flash>>
hist     == <<ops, faults, skip_at, retry>>
eccvars  == <<alpha, indx, gp, mtd_raw_buf, ecc_pc, ecc_i, ecc_src, nand_page>>
vars == <<cfgvars, pc, exit_code, loopvars, bufvars, devvars, hist, eccvars>>

Blocks == 0 .. NumBlocks - 1
Pages  == 0 .. NumPages - 1

BlockOf(off) == off \div EraseSize
PageOf(off)  == off \div WriteSize

NoPage == [inband |-> "none", oob |-> FALSE, src |-> <<>>, idx |-> <<>>]
NoSkip == [active |-> FALSE, rewind |-> FALSE, imgpos |-> 0, done |-> 0,
           buf |-> <<>>]

\* genecc.c's arrays are kept as the entries written so far; an entry never
\* written holds the zero the loader put there
Read(arr, i) == IF i \in DOMAIN arr THEN arr[i] ELSE 0
Write(arr, i, v) == [x \in DOMAIN arr \cup {i} |-> IF x = i THEN v ELSE arr[x]]

\* genecc.c's globals as the loader leaves them: all zero
EccZero ==
    /\ alpha = <<>>
    /\ indx = <<>>
    /\ gp = [i \in 0 .. 2 * MAX_CORR_ERR |-> 0]
    /\ mtd_raw_buf = <<>>
    /\ ecc_i = 0
    /\ ecc_src = <<>>
    /\ nand_page = [inband |-> <<>>, oob |-> <<>>]

(***************************************************************************)
(* Inputs                                                                  *)
(***************************************************************************)
\* -s: unaligned, block start, mid-block, a later block, the device end and
\* beyond it
StartOffs == {1, 0, WriteSize, EraseSize, MiSize, MiSize + WriteSize}
\* --maxoff: absent, inside the first block, inside a later block, beyond the
\* device
MaxOffs   == {-1, WriteSize, EraseSize + WriteSize, MiSize + WriteSize}
\* -l: absent (-1: the image size when writing), shorter than the image, or
\* longer
ReqLens   == (-1 .. MaxLen - 1) \cup {MaxLen + 1}

Init ==
    /\ start_off \in StartOffs
    /\ max_off \in MaxOffs
    /\ req_length \in ReqLens
    /\ failbad \in BOOLEAN
    /\ write_mode \in BOOLEAN
    /\ erase_mode \in BOOLEAN
    /\ write_mode \/ erase_mode
    /\ legacy \in BOOLEAN
    /\ dm365_rbl \in BOOLEAN
    /\ ~(legacy /\ dm365_rbl)
    /\ ubi \in BOOLEAN
    \* the options that only the write path reads are left off without -w
    /\ ~write_mode => (~legacy /\ ~dm365_rbl /\ ~ubi)
    \* --ubi is run with the legacy layout or none, and a --maxoff within the
    \* device or absent
    /\ ubi => (~dm365_rbl /\ max_off <= MiSize)
    /\ genecc = FALSE
    /\ req_pages = 0
    /\ input_size = 0
    /\ pc = "start"
    /\ exit_code = "none"
    /\ block_off = 0
    /\ bytes_done = 0
    /\ block_bytes_done = 0
    /\ rewind = FALSE
    /\ start_page_num = 0
    /\ page_num = 0
    /\ write_pages = 0
    /\ block_buf = [i \in 1 .. EraseSize |-> Uninit]
    /\ buf_idx = [i \in 1 .. EraseSize |-> 0]
    /\ image = <<>>
    /\ devbad = [b \in Blocks |-> FALSE]
    /\ flash = [p \in Pages |-> NoPage]
    /\ ops = <<>>
    /\ faults = 0
    /\ skip_at = NoSkip
    /\ retry = FALSE
    /\ EccZero
    /\ ecc_pc = "idle"

\* exit(code), or the return from main
Exit(code) ==
    /\ pc' = "done"
    /\ exit_code' = code

(***************************************************************************)
(* main(), from after handle_options to the entry of the block loop        *)
(***************************************************************************)
\* req_pages = ((req_length - 1) / mi.writesize) + 1.  mi.writesize is a
\* __u32, so the division is unsigned: for req_length = 0 the dividend is
\* 2^32 - 1 and req_pages is 2^32 / mi.writesize.  req_pages is kept modulo
\* that number, which is all its one use, the __u32 product
\* req_pages * mi.writesize, depends on.
ReqPages(len) == IF len > 0 THEN (len - 1) \div WriteSize + 1 ELSE 0

Startup ==
    /\ pc = "start"
    /\ UNCHANGED eccvars
    /\ genecc' = (legacy \/ dm365_rbl)
    /\ IF LowBits(start_off, WriteSize) # 0
       THEN \* start offset not aligned to the page size
            /\ Exit("FAIL")
            /\ UNCHANGED <<input_size, req_length, req_pages, max_off,
                           block_off>>
       ELSE
       LET isz   == IF write_mode THEN MaxLen ELSE input_size
           len   == IF write_mode /\ req_length < 0 THEN isz ELSE req_length
           pages == ReqPages(len)
           moff  == IF max_off < 0 \/ max_off > MiSize THEN MiSize
                    ELSE max_off
       IN
       /\ input_size' = isz
       /\ IF write_mode /\ req_length > isz
          THEN \* file smaller than the requested length
               /\ Exit("FAIL")
               /\ UNCHANGED <<req_length, req_pages, max_off, block_off>>
          ELSE IF len < 0
          THEN \* no length and no input file
               /\ Exit("FAIL")
               /\ UNCHANGED <<req_length, req_pages, max_off, block_off>>
          ELSE
          /\ req_length' = len
          /\ req_pages' = pages
          /\ max_off' = moff
          /\ IF UGt(pages * WriteSize, MiSize - start_off)
                \/ UGt(pages * WriteSize, moff - start_off)
             THEN /\ Exit("NOSPACE")
                  /\ UNCHANGED block_off
             ELSE \/ /\ block_off' = AlignDown(start_off, EraseSize)
                     /\ pc' = "loop"
                     /\ UNCHANGED exit_code
                  \/ \* ioctl(MTDFILEMODE, MTD_MODE_RAW) fails
                     /\ write_mode /\ (legacy \/ dm365_rbl)
                     /\ Exit("FAIL")
                     /\ UNCHANGED block_off
    /\ UNCHANGED <<start_off, failbad, write_mode, erase_mode, legacy,
                   dm365_rbl, ubi>>
    /\ UNCHANGED <<bytes_done, block_bytes_done, rewind, start_page_num,
                   page_num, write_pages>>
    /\ UNCHANGED <<bufvars, devvars, hist>>

(***************************************************************************)
(* The device.  One record per call, appended to ops in call order.        *)
(***************************************************************************)
Op(op, off, len, ok, res, src, idx) ==
    [op |-> op, off |-> off, len |-> len, ok |-> ok, res |-> res, src |-> src,
     idx |-> idx]

\* the flash after a successful MEMERASE of the block at off
Erased(fl, off) ==
    [p \in Pages |-> IF BlockOf(p * WriteSize) = BlockOf(off) THEN NoPage
                     ELSE fl[p]]

\* the bad-block table after MEMSETBADBLOCK, or a bad MEMGETBADBLOCK answer
MarkedBad(bad, off) ==
    [b \in Blocks |-> IF b = BlockOf(off) THEN TRUE ELSE bad[b]]

\* the for loop's increment, reached by continue and by the end of the body
NextBlock ==
    /\ block_off' = block_off + EraseSize
    /\ pc' = "loop"
    /\ UNCHANGED exit_code

(***************************************************************************)
(* Block loop: condition and bad-block check                               *)
(***************************************************************************)
\* bytes_done < req_length is false: leave the loop, return 0
LoopExit ==
    /\ pc = "loop"
    /\ UNCHANGED eccvars
    /\ UNCHANGED retry
    /\ ~(bytes_done < req_length)
    /\ Exit("OK")
    /\ UNCHANGED <<cfgvars, loopvars, bufvars, devvars, ops, faults, skip_at>>

\* MEMGETBADBLOCK fails: the MTD layer rejects an offset at or past mi.size
QueryError ==
    /\ pc = "loop"
    /\ UNCHANGED eccvars
    /\ UNCHANGED retry
    /\ bytes_done < req_length
    /\ block_off >= MiSize
    /\ block_bytes_done' = 0
    /\ ops' = Append(ops, Op("query", block_off, EraseSize, FALSE, "error", <<>>, <<>>))
    /\ Exit("FAIL")
    /\ UNCHANGED <<cfgvars, block_off, bytes_done, rewind, start_page_num,
                   page_num, write_pages, bufvars, devvars, faults, skip_at>>

\* BadBlockFound with the bad answer not acted on: the block is used
BadBlockFoundUsed ==
    IF failbad
    THEN /\ Exit("BADBLOCK")
         /\ UNCHANGED block_off
    ELSE /\ pc' = IF erase_mode THEN "erase" ELSE "fill"
         /\ UNCHANGED <<block_off, exit_code>>

\* the block is bad: abort with --failbad, else continue with the next block
BadBlockFound ==
    IF failbad
    THEN /\ Exit("BADBLOCK")
         /\ UNCHANGED block_off
    ELSE NextBlock

\* MEMGETBADBLOCK answers 1
QueryBad ==
    /\ pc = "loop"
    /\ UNCHANGED eccvars
    /\ UNCHANGED retry
    /\ bytes_done < req_length
    /\ block_off < MiSize
    /\ block_bytes_done' = 0
    /\ ops' = Append(ops, Op("query", block_off, EraseSize, TRUE, "bad", <<>>, <<>>))
    /\ devbad' = MarkedBad(devbad, block_off)
    /\ BadBlockFound
    /\ skip_at' = IF failbad THEN skip_at
                  ELSE [active |-> TRUE, rewind |-> rewind,
                        imgpos |-> Len(image), done |-> bytes_done,
                        buf |-> block_buf]
    /\ UNCHANGED <<cfgvars, bytes_done, rewind, start_page_num, page_num,
                   write_pages, bufvars, flash, faults>>

\* MEMGETBADBLOCK answers 0
QueryGood ==
    /\ pc = "loop"
    /\ UNCHANGED eccvars
    /\ UNCHANGED retry
    /\ bytes_done < req_length
    /\ block_off < MiSize
    /\ block_bytes_done' = 0
    /\ ops' = Append(ops, Op("query", block_off, EraseSize, TRUE, "good", <<>>, <<>>))
    /\ pc' = IF erase_mode THEN "erase" ELSE "fill"
    /\ UNCHANGED <<cfgvars, exit_code, block_off, bytes_done, rewind,
                   start_page_num, page_num, write_pages, bufvars, devvars,
                   faults, skip_at>>

(***************************************************************************)
(* Erase of the block, with -e                                             *)
(***************************************************************************)
EraseNoSpace ==
    /\ pc = "erase"
    /\ UNCHANGED eccvars
    /\ UNCHANGED retry
    /\ UGt(block_off + EraseSize, max_off)
    /\ Exit("NOSPACE")
    /\ UNCHANGED <<cfgvars, loopvars, bufvars, devvars, ops, faults, skip_at>>

EraseOk ==
    /\ pc = "erase"
    /\ UNCHANGED eccvars
    /\ UNCHANGED retry
    /\ ~UGt(block_off + EraseSize, max_off)
    /\ ops' = Append(ops, Op("erase", block_off, EraseSize, TRUE, "", <<>>, <<>>))
    /\ flash' = Erased(flash, block_off)
    /\ pc' = "fill"
    /\ UNCHANGED <<cfgvars, exit_code, loopvars, bufvars, devbad, faults,
                   skip_at>>

\* AfterEraseFail with the result of mark_block_bad not looked at
AfterEraseFailIgnored(markok) ==
    /\ NextBlock
    /\ devbad' = IF markok THEN MarkedBad(devbad, block_off) ELSE devbad

\* the outcome of a failed erase: mark the block bad and go to the next one,
\* or exit when the marking fails too
AfterEraseFail(markok) ==
    IF markok
    THEN /\ NextBlock
         /\ devbad' = MarkedBad(devbad, block_off)
    ELSE /\ Exit("FAIL")
         /\ UNCHANGED <<block_off, devbad>>

EraseFail ==
    /\ pc = "erase"
    /\ UNCHANGED eccvars
    /\ UNCHANGED retry
    /\ ~UGt(block_off + EraseSize, max_off)
    /\ faults < MaxFaults
    /\ \E markok \in BOOLEAN :
          /\ ~markok => faults + 1 < MaxFaults
          /\ faults' = faults + (IF markok THEN 1 ELSE 2)
          /\ ops' = ops \o
                <<Op("erase", block_off, EraseSize, FALSE, "", <<>>, <<>>),
                  Op("mark", block_off, EraseSize, markok, "", <<>>, <<>>)>>
          /\ AfterEraseFail(markok)
    /\ UNCHANGED <<cfgvars, bytes_done, block_bytes_done, rewind,
                   start_page_num, page_num, write_pages, bufvars, flash,
                   skip_at>>

(***************************************************************************)
(* Start page, refill of the eraseblock buffer, trailing-FF count          *)
(***************************************************************************)
StartPageNum ==
    IF start_off > block_off THEN (start_off - block_off) \div WriteSize
    ELSE 0

\* next_image_block(): index of the first image byte in block_buf
BufStart == IF start_off > block_off THEN start_off - block_off ELSE 0

\* next_image_block(): index of the last image byte in block_buf, plus one
BufEnd ==
    IF UGt(bytes_done + EraseSize, req_length)
    THEN req_length - bytes_done + BufStart
    ELSE EraseSize

\* block_buf after next_image_block() has read the bytes rd from the image:
\* 0xFF before buf_start (first block only), the image bytes, 0xFF from
\* buf_end on (last block only); what neither memset nor read touches stays
Refilled(buf, rd) ==
    [i \in 1 .. EraseSize |->
        IF i <= BufStart THEN FF
        ELSE IF i <= BufEnd THEN rd[i - BufStart]
        ELSE IF UGt(bytes_done + EraseSize, req_length) THEN FF
        ELSE buf[i]]

\* file position (from 1) of the image byte at each index of the refilled
\* buffer, 0 for padding
RefilledIdx ==
    [i \in 1 .. EraseSize |->
        IF i > BufStart /\ i <= BufEnd THEN Len(image) + (i - BufStart)
        ELSE 0]

\* the 0xFF patterns of n image bytes: none, an all-0xFF tail of any length,
\* or an all-0xFF head followed by other bytes
FFPatterns(n) ==
    {[i \in 1 .. n |-> i > n - t] : t \in 0 .. n} \cup
    {[i \in 1 .. n |-> i <= t] : t \in 1 .. n - 1}

\* what read() can return for the next n bytes of the image file: each byte
\* is 0xFF or not; --ubi is the only reader of the byte values
ImageReads(n) ==
    {[i \in 1 .. n |-> IF f[i] THEN FF ELSE DataByte(Len(image) + i)] :
        f \in IF ubi THEN FFPatterns(n) ELSE {[i \in 1 .. n |-> FALSE]}}

\* count_trailing_ff_pages()
CountTrailingFF(buf) ==
    LET ffs == CHOOSE k \in 0 .. EraseSize :
                  /\ \A i \in 1 .. k : buf[EraseSize - i + 1] = FF
                  /\ k < EraseSize => buf[EraseSize - k] # FF
    IN ffs \div WriteSize

WritePages(buf) ==
    IF ubi THEN BlockPages - CountTrailingFF(buf) ELSE BlockPages

\* FillEraseOnly with the whole block counted whatever the start page
FillEraseOnlyWholeBlock ==
    /\ pc = "fill"
    /\ UNCHANGED eccvars
    /\ UNCHANGED retry
    /\ ~write_mode
    /\ start_page_num' = StartPageNum
    /\ bytes_done' = bytes_done + EraseSize
    /\ NextBlock
    /\ skip_at' = NoSkip
    /\ UNCHANGED <<cfgvars, block_bytes_done, rewind, page_num, write_pages,
                   bufvars, devvars, ops, faults>>

\* -e without -w: count the block's remaining pages and go to the next block
FillEraseOnly ==
    /\ pc = "fill"
    /\ UNCHANGED eccvars
    /\ UNCHANGED retry
    /\ ~write_mode
    /\ start_page_num' = StartPageNum
    /\ bytes_done' = bytes_done + (EraseSize - StartPageNum * WriteSize)
    /\ NextBlock
    /\ skip_at' = NoSkip
    /\ UNCHANGED <<cfgvars, block_bytes_done, rewind, page_num, write_pages,
                   bufvars, devvars, ops, faults>>

\* next_image_block() with buf_end past the buffer: the memset length
\* mi.erasesize - buf_end wraps to a huge unsigned value and the process
\* dies on the memset
FillOverrun ==
    /\ pc = "fill"
    /\ UNCHANGED eccvars
    /\ UNCHANGED retry
    /\ write_mode /\ ~rewind
    /\ BufEnd > EraseSize
    /\ start_page_num' = StartPageNum
    /\ Exit("CRASH")
    /\ UNCHANGED <<cfgvars, block_off, bytes_done, block_bytes_done, rewind,
                   page_num, write_pages, bufvars, devvars, ops, faults,
                   skip_at>>

\* next_image_block() refills block_buf from the image
FillRead ==
    /\ pc = "fill"
    /\ UNCHANGED eccvars
    /\ retry' = FALSE
    /\ write_mode /\ ~rewind
    /\ BufEnd <= EraseSize
    /\ start_page_num' = StartPageNum
    /\ LET want == BufEnd - BufStart IN
       IF Len(image) + want > input_size
       THEN \* read() returns 0: unexpected EOF
            /\ Exit("FAIL")
            /\ UNCHANGED <<bufvars, page_num, write_pages>>
       ELSE \E rd \in ImageReads(want) :
            /\ block_buf' = Refilled(block_buf, rd)
            /\ buf_idx' = RefilledIdx
            /\ image' = image \o rd
            /\ write_pages' = WritePages(Refilled(block_buf, rd))
            /\ page_num' = StartPageNum
            /\ pc' = "pages"
            /\ UNCHANGED exit_code
    /\ UNCHANGED <<cfgvars, block_off, bytes_done, block_bytes_done, rewind,
                   devvars, ops, faults, skip_at>>

\* FillRewind with next_image_block() called all the same
FillRewindRefill ==
    /\ pc = "fill"
    /\ UNCHANGED eccvars
    /\ retry' = TRUE
    /\ write_mode /\ rewind
    /\ BufEnd <= EraseSize
    /\ Len(image) + (BufEnd - BufStart) <= input_size
    /\ start_page_num' = StartPageNum
    /\ \E rd \in ImageReads(BufEnd - BufStart) :
          /\ block_buf' = Refilled(block_buf, rd)
          /\ buf_idx' = RefilledIdx
          /\ image' = image \o rd
          /\ write_pages' = WritePages(Refilled(block_buf, rd))
    /\ rewind' = FALSE
    /\ page_num' = StartPageNum
    /\ pc' = "pages"
    /\ UNCHANGED <<cfgvars, exit_code, block_off, bytes_done,
                   block_bytes_done, devvars, ops, faults, skip_at>>

\* rewind is set: block_buf is kept and sent to this block
FillRewind ==
    /\ pc = "fill"
    /\ UNCHANGED eccvars
    /\ retry' = TRUE
    /\ write_mode /\ rewind
    /\ start_page_num' = StartPageNum
    /\ write_pages' = WritePages(block_buf)
    /\ rewind' = FALSE
    /\ page_num' = StartPageNum
    /\ pc' = "pages"
    /\ UNCHANGED <<cfgvars, exit_code, block_off, bytes_done,
                   block_bytes_done, bufvars, devvars, ops, faults, skip_at>>

(***************************************************************************)
(* Page loop                                                               *)
(***************************************************************************)
PageOff == block_off + page_num * WriteSize

\* write_page(): srcdata, the page of block_buf to send
SrcData == SubSeq(block_buf, page_num * WriteSize + 1,
                  (page_num + 1) * WriteSize)
SrcIdx  == SubSeq(buf_idx, page_num * WriteSize + 1,
                  (page_num + 1) * WriteSize)

Layout == IF legacy THEN "legacy" ELSE IF dm365_rbl THEN "dm365_rbl" ELSE "none"

PageOverMax == UGt(block_off + (page_num + 1) * WriteSize, max_off)

\* WritePageOps without the return after a failed write: the OOB follows
WritePageOpsOobAlways(how) ==
    LET wr(ok) == Op("write", PageOff, WriteSize, ok, Layout, SrcData, SrcIdx)
        ob(ok) == Op("oob", PageOff, WriteSize, ok, Layout, SrcData, SrcIdx)
    IN CASE how = "write" -> IF genecc THEN <<wr(FALSE), ob(TRUE)>>
                             ELSE <<wr(FALSE)>>
         [] how = "oob"   -> <<wr(TRUE), ob(FALSE)>>
         [] how = "ok"    -> IF genecc THEN <<wr(TRUE), ob(TRUE)>>
                             ELSE <<wr(TRUE)>>

\* the device calls of one write_page(): "ok", or the call that fails
WritePageOps(how) ==
    LET wr(ok) == Op("write", PageOff, WriteSize, ok, Layout, SrcData, SrcIdx)
        ob(ok) == Op("oob", PageOff, WriteSize, ok, Layout, SrcData, SrcIdx)
    IN CASE how = "write" -> <<wr(FALSE)>>
         [] how = "oob"   -> <<wr(TRUE), ob(FALSE)>>
         [] how = "ok"    -> IF genecc THEN <<wr(TRUE), ob(TRUE)>>
                             ELSE <<wr(TRUE)>>

\* the flash after that write_page()
WritePageFlash(how) ==
    LET pg == PageOf(PageOff)
        st == CASE how = "write" -> [inband |-> "partial", oob |-> FALSE,
                                     src |-> SrcData, idx |-> SrcIdx]
                [] how = "oob"   -> [inband |-> "ok", oob |-> FALSE,
                                     src |-> SrcData, idx |-> SrcIdx]
                [] how = "ok"    -> [inband |-> "ok", oob |-> genecc,
                                     src |-> SrcData, idx |-> SrcIdx]
    IN IF pg \in Pages THEN [flash EXCEPT ![pg] = st] ELSE flash

\* the ways write_page() can fail: write, MEMWRITEOOB (the lseek to a page
\* offset inside the device does not fail)
PageFailures == IF genecc THEN {"write", "oob"} ELSE {"write"}

\* PageDone without the break at the end of the request: the page loop runs
\* to the end of the block
PageDoneWholeBlock ==
    /\ block_bytes_done' = block_bytes_done + WriteSize
    /\ IF page_num + 1 >= BlockPages
       THEN /\ pc' = "commit"
            /\ UNCHANGED page_num
       ELSE /\ pc' = "pages"
            /\ page_num' = page_num + 1
    /\ UNCHANGED exit_code

\* end of a page iteration with ret = 0: count the page, then break when the
\* request is covered, or step to the next page of the block
PageDone ==
    /\ block_bytes_done' = block_bytes_done + WriteSize
    /\ IF bytes_done + block_bytes_done + WriteSize >= req_length
          \/ page_num + 1 >= BlockPages
       THEN /\ pc' = "commit"
            /\ UNCHANGED page_num
       ELSE /\ pc' = "pages"
            /\ page_num' = page_num + 1
    /\ UNCHANGED exit_code

PageNoSpace ==
    /\ pc = "pages"
    /\ UNCHANGED eccvars
    /\ UNCHANGED retry
    /\ PageOverMax
    /\ Exit("NOSPACE")
    /\ UNCHANGED <<cfgvars, loopvars, bufvars, devvars, ops, faults, skip_at>>

\* --ubi: a page of the trailing all-FF run is not written
PageSkip ==
    /\ pc = "pages"
    /\ UNCHANGED eccvars
    /\ UNCHANGED retry
    /\ ~PageOverMax
    /\ page_num >= write_pages
    /\ ops' = Append(ops, Op("ffskip", PageOff, WriteSize, TRUE, "", SrcData, SrcIdx))
    /\ PageDone
    /\ UNCHANGED <<cfgvars, block_off, bytes_done, rewind, start_page_num,
                   write_pages, bufvars, devvars, faults, skip_at>>

PageWrite ==
    /\ pc = "pages"
    /\ UNCHANGED eccvars
    /\ UNCHANGED retry
    /\ ~PageOverMax
    /\ page_num < write_pages
    /\ ops' = ops \o WritePageOps("ok")
    /\ flash' = WritePageFlash("ok")
    /\ PageDone
    /\ UNCHANGED <<cfgvars, block_off, bytes_done, rewind, start_page_num,
                   write_pages, bufvars, devbad, faults, skip_at>>

\* write_page() fails under --failbad
PageFailStrict ==
    /\ pc = "pages"
    /\ UNCHANGED eccvars
    /\ UNCHANGED retry
    /\ ~PageOverMax
    /\ page_num < write_pages
    /\ failbad
    /\ faults < MaxFaults
    /\ \E how \in PageFailures :
          /\ ops' = ops \o WritePageOps(how)
          /\ flash' = WritePageFlash(how)
    /\ faults' = faults + 1
    /\ Exit("BADBLOCK")
    /\ UNCHANGED <<cfgvars, loopvars, bufvars, devbad, skip_at>>

\* AfterPageFail with a mark_block_bad that reports success without marking
AfterPageFailUnmarked(markok) ==
    IF markok
    THEN /\ rewind' = TRUE
         /\ pc' = "commit"
         /\ UNCHANGED <<exit_code, devbad>>
    ELSE /\ Exit("FAIL")
         /\ UNCHANGED <<devbad, rewind>>

\* after a failed page and the best-effort erase: the block is marked bad and
\* rewind set, or the run ends when the marking fails
AfterPageFail(markok) ==
    IF markok
    THEN /\ devbad' = MarkedBad(devbad, block_off)
         /\ rewind' = TRUE
         /\ pc' = "commit"
         /\ UNCHANGED exit_code
    ELSE /\ Exit("FAIL")
         /\ UNCHANGED <<devbad, rewind>>

\* write_page() fails without --failbad: erase the block (best effort), mark
\* it bad, set rewind and leave the page loop
PageFailMark ==
    /\ pc = "pages"
    /\ UNCHANGED eccvars
    /\ UNCHANGED retry
    /\ ~PageOverMax
    /\ page_num < write_pages
    /\ ~failbad
    /\ faults < MaxFaults
    /\ \E how \in PageFailures, eraseok \in BOOLEAN, markok \in BOOLEAN :
          LET n == 1 + (IF eraseok THEN 0 ELSE 1) + (IF markok THEN 0 ELSE 1)
              fl == WritePageFlash(how)
          IN
          /\ faults + n <= MaxFaults
          /\ faults' = faults + n
          /\ ops' = ops \o WritePageOps(how) \o
                <<Op("erase", block_off, EraseSize, eraseok, "", <<>>, <<>>),
                  Op("mark", block_off, EraseSize, markok, "", <<>>, <<>>)>>
          /\ flash' = IF eraseok THEN Erased(fl, block_off) ELSE fl
          /\ AfterPageFail(markok)
    /\ UNCHANGED <<cfgvars, block_off, bytes_done, block_bytes_done,
                   start_page_num, page_num, write_pages, bufvars, skip_at>>

\* Commit with the block counted whether or not it is to be rewound
CommitAlways ==
    /\ pc = "commit"
    /\ UNCHANGED eccvars
    /\ UNCHANGED retry
    /\ bytes_done' = bytes_done + block_bytes_done
    /\ NextBlock
    /\ skip_at' = NoSkip
    /\ UNCHANGED <<cfgvars, block_bytes_done, rewind, start_page_num,
                   page_num, write_pages, bufvars, devvars, ops, faults>>

\* after the page loop: count the block unless it is to be rewound
Commit ==
    /\ pc = "commit"
    /\ UNCHANGED eccvars
    /\ UNCHANGED retry
    /\ bytes_done' = IF ~rewind THEN bytes_done + block_bytes_done
                     ELSE bytes_done
    /\ NextBlock
    /\ skip_at' = NoSkip
    /\ UNCHANGED <<cfgvars, block_bytes_done, rewind, start_page_num,
                   page_num, write_pages, bufvars, devvars, ops, faults>>

Next ==
    \/ Startup
    \/ LoopExit
    \/ QueryError
    \/ QueryBad
    \/ QueryGood
    \/ EraseNoSpace
    \/ EraseOk
    \/ EraseFail
    \/ FillEraseOnly
    \/ FillOverrun
    \/ FillRead
    \/ FillRewind
    \/ PageNoSpace
    \/ PageSkip
    \/ PageWrite
    \/ PageFailStrict
    \/ PageFailMark
    \/ Commit

Spec == Init /\ [][Next]_vars

(***************************************************************************)
(* genecc.c: arithmetic of GF(2^10)                                        *)
(***************************************************************************)
\* C's ^, & and | on non-negative ints
RECURSIVE BitXor(_, _)
BitXor(a, b) ==
    IF a = 0 THEN b
    ELSE IF b = 0 THEN a
    ELSE (((a % 2) + (b % 2)) % 2) + 2 * BitXor(a \div 2, b \div 2)

RECURSIVE BitAnd(_, _)
BitAnd(a, b) ==
    IF a = 0 \/ b = 0 THEN 0
    ELSE ((a % 2) * (b % 2)) + 2 * BitAnd(a \div 2, b \div 2)

RECURSIVE BitOr(_, _)
BitOr(a, b) ==
    IF a = 0 THEN b
    ELSE IF b = 0 THEN a
    ELSE (IF (a % 2) + (b % 2) > 0 THEN 1 ELSE 0) + 2 * BitOr(a \div 2, b \div 2)

\* x << k and x >> k
Shl(x, k) == x * 2 ^ k
Shr(x, k) == x \div 2 ^ k

\* x & (1 << k) is not zero
TestBit(x, k) == Shr(x, k) % 2 = 1

alphafromindex(i) == Read(alpha, i % (LENGTH - 1))

\* order(): the five conditional shifts of x, with sh the shift made so far;
\* (x << sh) & mask is zero exactly when x is below 2^(width - sh)
order(x) ==
    IF x = 0 THEN 0
    ELSE
    LET below(w, sh) == Shr(x, w - sh - 1) < 2
        s1 == IF below(16, 0) THEN 16 ELSE 0
        s2 == s1 + (IF below(24, s1) THEN 8 ELSE 0)
        s3 == s2 + (IF below(28, s2) THEN 4 ELSE 0)
        s4 == s3 + (IF below(30, s3) THEN 2 ELSE 0)
        s5 == s4 + (IF below(31, s4) THEN 1 ELSE 0)
        r  == 31 - s5
    IN IF r > 0 THEN r ELSE 0

\* the while loop of modulo(), from bit ordx down to bit ordy
RECURSIVE ModuloLoop(_, _, _, _)
ModuloLoop(x, y, ordx, ordy) ==
    IF ordx >= ordy
    THEN ModuloLoop(IF TestBit(x, ordx)
                    THEN BitXor(x, Shl(y, ordx - ordy)) ELSE x,
                    y, ordx - 1, ordy)
    ELSE x

modulo(x, y) == ModuloLoop(x, y, order(x), order(y))

\* the for loop of multiply(), from bit i up to bit 15
RECURSIVE MultiplyLoop(_, _, _, _)
MultiplyLoop(x, y, i, temp) ==
    IF i < 16
    THEN MultiplyLoop(x, y, i + 1,
                      IF TestBit(x, i) THEN BitXor(temp, Shl(y, i))
                      ELSE temp)
    ELSE temp

multiply(x, y) == modulo(MultiplyLoop(x, y, 0, 0), poly)

(***************************************************************************)
(* genecc_init()                                                           *)
(***************************************************************************)
\* entry of genecc_init(): alpha[0] = 1, indx[0] = 1
GeneccInit ==
    /\ ecc_pc = "init"
    /\ alpha' = Write(alpha, 0, 1)
    /\ indx' = Write(indx, 0, 1)
    /\ ecc_i' = 1
    /\ ecc_pc' = "alpha"
    /\ UNCHANGED <<gp, mtd_raw_buf, ecc_src, nand_page>>
    /\ UNCHANGED <<cfgvars, pc, exit_code, loopvars, bufvars, devvars, hist>>

\* AlphaStep with the previous index stored in indx
AlphaStepStale(tabs, i) ==
    LET a == multiply(Read(tabs.alpha, i - 1), primelement) IN
    [alpha |-> Write(tabs.alpha, i, a), indx |-> Write(tabs.indx, a, i - 1)]

\* the tables after one iteration of the first loop
AlphaStep(tabs, i) ==
    LET a == multiply(Read(tabs.alpha, i - 1), primelement) IN
    [alpha |-> Write(tabs.alpha, i, a), indx |-> Write(tabs.indx, a, i)]

\* one iteration of the loop that fills alpha[] and indx[]; after the last
\* one, gp[0] = 1
GeneccInitAlpha ==
    /\ ecc_pc = "alpha"
    /\ LET t == AlphaStep([alpha |-> alpha, indx |-> indx], ecc_i) IN
       /\ alpha' = t.alpha
       /\ indx' = t.indx
    /\ IF ecc_i + 1 < LENGTH
       THEN /\ ecc_i' = ecc_i + 1
            /\ UNCHANGED <<ecc_pc, gp>>
       ELSE /\ ecc_i' = 1
            /\ ecc_pc' = "gp"
            /\ gp' = [gp EXCEPT ![0] = 1]
    /\ UNCHANGED <<mtd_raw_buf, ecc_src, nand_page>>
    /\ UNCHANGED <<cfgvars, pc, exit_code, loopvars, bufvars, devvars, hist>>

\* the inner loop of the generator polynomial, from j down to 1
RECURSIVE GpInner(_, _, _)
GpInner(g, i, j) ==
    IF j > 0
    THEN GpInner([g EXCEPT ![j] =
                     IF g[j] # 0
                     THEN BitXor(g[j - 1], multiply(alphafromindex(i), g[j]))
                     ELSE g[j - 1]],
                 i, j - 1)
    ELSE g

\* GpStep with gp[0] = alpha^i in place of the closed form
GpStepLowWrong(g, i) ==
    [GpInner([g EXCEPT ![i] = 1], i, i - 1) EXCEPT ![0] = alphafromindex(i)]

\* gp after iteration i of the outer loop
GpStep(g, i) ==
    [GpInner([g EXCEPT ![i] = 1], i, i - 1)
        EXCEPT ![0] = alphafromindex((i * (i + 1)) \div 2)]

\* one iteration of the loop that builds the generator polynomial
GeneccInitGp ==
    /\ ecc_pc = "gp"
    /\ gp' = GpStep(gp, ecc_i)
    /\ IF ecc_i + 1 <= 2 * MAX_CORR_ERR
       THEN /\ ecc_i' = ecc_i + 1
            /\ UNCHANGED ecc_pc
       ELSE /\ ecc_i' = 0
            /\ ecc_pc' = "ready"
    /\ UNCHANGED <<alpha, indx, mtd_raw_buf, ecc_src, nand_page>>
    /\ UNCHANGED <<cfgvars, pc, exit_code, loopvars, bufvars, devvars, hist>>

(***************************************************************************)
(* gen_subpage_ecc()                                                       *)
(***************************************************************************)
\* DataInit with the bytes taken in forward order
DataInitForward(buf) ==
    [i \in 0 .. N - 1 |-> IF i < 2 * S THEN 0 ELSE buf[(i - 2 * S) + 1]]

\* data[] after the memset and the copy loop: data[i + 2S] = buf[(K - 1) - i];
\* buf[k] of the source is buf[k + 1] here
DataInit(buf) ==
    [i \in 0 .. N - 1 |->
        IF i < 2 * S THEN 0 ELSE buf[((K - 1) - (i - 2 * S)) + 1]]

\* the long division, from data[i] down to data[2S]
RECURSIVE DivideLoop(_, _)
DivideLoop(data, i) ==
    IF i >= 2 * S
    THEN DivideLoop(
            IF data[i] # 0
            THEN [d \in 0 .. N - 1 |->
                    IF d = i THEN 0
                    ELSE IF d >= i - 2 * S /\ d < i
                    THEN BitXor(data[d],
                                multiply(data[i], gp[2 * S - (i - d)]))
                    ELSE data[d]]
            ELSE data,
            i - 1)
    ELSE data

\* the parity symbols: data[0 .. 2S-1] after the division
SubpageParity(buf) ==
    LET data == DivideLoop(DataInit(buf), N - 1)
    IN [j \in 0 .. 2 * S - 1 |-> data[j]]

\* Pack5 with the second byte's fields shifted as the first byte's
Pack5Misaligned(p0, p1, p2, p3) ==
    <<BitAnd(p0, 255),
      BitOr(BitAnd(Shr(p0, 8), 3), BitAnd(Shl(p1, 2), 252)),
      BitOr(BitAnd(Shr(p1, 8), 15), BitAnd(Shl(p2, 4), 240)),
      BitOr(BitAnd(Shr(p2, 4), 63), BitAnd(Shl(p3, 6), 192)),
      BitAnd(Shr(p3, 2), 255)>>

\* one pass of the packing loop: four symbols to five bytes
Pack5(p0, p1, p2, p3) ==
    <<BitAnd(p0, 255),
      BitOr(BitAnd(Shr(p0, 8), 3), BitAnd(Shl(p1, 2), 252)),
      BitOr(BitAnd(Shr(p1, 6), 15), BitAnd(Shl(p2, 4), 240)),
      BitOr(BitAnd(Shr(p2, 4), 63), BitAnd(Shl(p3, 6), 192)),
      BitAnd(Shr(p3, 2), 255)>>

\* the ten ECC bytes of the subpage buf
gen_subpage_ecc(buf) ==
    LET p == SubpageParity(buf)
    IN Pack5(p[0], p[1], p[2], p[3]) \o Pack5(p[4], p[5], p[6], p[7])

(***************************************************************************)
(* do_genecc() and the ECC path of write_page().  Offsets into mtd_raw_buf *)
(* are the source's, from 0.                                               *)
(***************************************************************************)
\* memcpy/memset of bytes to buf + off
Poke(buf, off, bytes) ==
    [x \in DOMAIN buf \cup (off .. off + Len(bytes) - 1) |->
        IF x >= off /\ x < off + Len(bytes) THEN bytes[x - off + 1]
        ELSE buf[x]]

\* the len bytes at buf + off
Peek(buf, off, len) == [k \in 1 .. len |-> Read(buf, off + k - 1)]

Fill(len) == [k \in 1 .. len |-> FF]

\* LegacyUnit with the ECC at the start of the OOB unit
LegacyUnitEccFirst(buf, src, n) ==
    LET raw_subpage == subsz_raw * n
        oob == raw_subpage + subsz_data
        b1  == Poke(buf, raw_subpage,
                    SubSeq(src, subsz_data * n + 1, subsz_data * (n + 1)))
        b2  == Poke(b1, oob, Fill(6))
    IN Poke(b2, oob, gen_subpage_ecc(Peek(b2, raw_subpage, K)))

\* iteration n of the legacy loop
LegacyUnit(buf, src, n) ==
    LET raw_subpage == subsz_raw * n
        oob == raw_subpage + subsz_data
        b1  == Poke(buf, raw_subpage,
                    SubSeq(src, subsz_data * n + 1, subsz_data * (n + 1)))
        b2  == Poke(b1, oob, Fill(6))
    IN Poke(b2, oob + 6, gen_subpage_ecc(Peek(b2, raw_subpage, K)))

RECURSIVE LegacyLoop(_, _, _)
LegacyLoop(buf, src, n) ==
    IF n < SubPages THEN LegacyLoop(LegacyUnit(buf, src, n), src, n + 1)
    ELSE buf

\* iteration n of the DM365 RBL loop
RblUnit(buf, n) ==
    LET oob == pagesz_data
    IN Poke(buf, oob + n * OobUnit + 6,
            gen_subpage_ecc(Peek(buf, subsz_data * n, K)))

RECURSIVE RblLoop(_, _)
RblLoop(buf, n) ==
    IF n < SubPages THEN RblLoop(RblUnit(buf, n), n + 1) ELSE buf

\* RblStart without the memset of the OOB
RblStartNoFill(buf, src) ==
    Poke(buf, 0, src)

\* the DM365 RBL case up to its loop: the memcpy and the memset
RblStart(buf, src) ==
    Poke(Poke(buf, 0, src), pagesz_data, Fill(OobUnit * SubPages))

\* mtd_raw_buf after do_genecc(src, layout)
do_genecc(buf, src, layout) ==
    CASE layout = "legacy"    -> LegacyLoop(buf, src, 0)
      [] layout = "dm365_rbl" -> RblLoop(RblStart(buf, src), 0)
      [] OTHER                -> buf

\* the pages handed to write_page: byte i (from 1) is a at every third
\* position and b * i elsewhere
SrcPage(a, b) ==
    [i \in 1 .. pagesz_data |-> IF i % 3 = 1 THEN a ELSE (b * i) % 256]

SrcPages == {SrcPage(a, b) : a \in {0, 1, 255}, b \in {0, 1, 85, 255}}

\* what write_page sends: mi.writesize bytes of writeme in-band, then
\* mi.oobsize bytes from writeme + mi.writesize as OOB
SentPage(writeme) ==
    [inband |-> Peek(writeme, 0, pagesz_data),
     oob    |-> Peek(writeme, pagesz_data, SubPages * OobUnit)]

\* write_page() with genecc set, all device calls succeeding (their failures
\* are PageFailStrict and PageFailMark): the page is run through do_genecc
\* and sent.  Here mi.writesize is pagesz_data and mi.oobsize the four OOB
\* units.
WritePageGenecc ==
    /\ ecc_pc = "ready"
    /\ \E src \in SrcPages :
          LET writeme == do_genecc(mtd_raw_buf, src, Layout) IN
          /\ ecc_src' = src
          /\ mtd_raw_buf' = writeme
          /\ nand_page' = SentPage(writeme)
    /\ UNCHANGED <<alpha, indx, gp, ecc_pc, ecc_i>>
    /\ UNCHANGED <<cfgvars, pc, exit_code, loopvars, bufvars, devvars, hist>>

\* main() at the call of genecc_init() (line 523): a write with one of the
\* two layouts
EccInit ==
    /\ start_off = 0
    /\ max_off = MiSize
    /\ req_length = MaxLen
    /\ failbad = FALSE
    /\ write_mode = TRUE
    /\ erase_mode = FALSE
    /\ legacy \in BOOLEAN
    /\ dm365_rbl = ~legacy
    /\ ubi = FALSE
    /\ genecc = TRUE
    /\ req_pages = ReqPages(MaxLen)
    /\ input_size = MaxLen
    /\ pc = "genecc"
    /\ exit_code = "none"
    /\ block_off = 0
    /\ bytes_done = 0
    /\ block_bytes_done = 0
    /\ rewind = FALSE
    /\ start_page_num = 0
    /\ page_num = 0
    /\ write_pages = 0
    /\ block_buf = [i \in 1 .. EraseSize |-> Uninit]
    /\ buf_idx = [i \in 1 .. EraseSize |-> 0]
    /\ image = <<>>
    /\ devbad = [b \in Blocks |-> FALSE]
    /\ flash = [p \in Pages |-> NoPage]
    /\ ops = <<>>
    /\ faults = 0
    /\ skip_at = NoSkip
    /\ retry = FALSE
    /\ EccZero
    /\ ecc_pc = "init"

EccNext ==
    \/ GeneccInit
    \/ GeneccInitAlpha
    \/ GeneccInitGp
    \/ WritePageGenecc

EccSpec == EccInit /\ [][EccNext]_vars

(***************************************************************************)
(* Vocabulary of the properties                                            *)
(***************************************************************************)
Mutating == {"erase", "write", "oob", "mark"}
PageCalls == {"write", "oob"}

OpBlock(o) == BlockOf(o.off)

\* a write_page() of block b failed
PageFailedIn(b) ==
    \E i \in DOMAIN ops :
        ops[i].op \in PageCalls /\ ~ops[i].ok /\ OpBlock(ops[i]) = b

\* page q of the eraseblock buffer
BufPage(buf, q) == SubSeq(buf, q * WriteSize + 1, (q + 1) * WriteSize)

\* the image byte at file position i is on the medium in a block that is not
\* marked bad: written in-band, or left unwritten as part of a trailing-FF run
Held(i) ==
    \/ \E p \in Pages :
          /\ ~devbad[BlockOf(p * WriteSize)]
          /\ flash[p].inband = "ok"
          /\ \E j \in 1 .. WriteSize :
                flash[p].idx[j] = i /\ flash[p].src[j] = image[i]
    \/ \E k \in DOMAIN ops :
          /\ ops[k].op = "ffskip"
          /\ OpBlock(ops[k]) \in Blocks
          /\ ~devbad[OpBlock(ops[k])]
          /\ \E j \in 1 .. WriteSize : ops[k].idx[j] = i

\* file position of the first image byte in the eraseblock buffer
FirstIdx ==
    LET held == {buf_idx[i] : i \in 1 .. EraseSize} \ {0}
    IN IF held = {} THEN 0 ELSE CHOOSE m \in held : \A n \in held : m <= n

(***************************************************************************)
(* C1 - Rewind correctness.  In non-strict write mode, after a page        *)
(* failure the bytes buffered for the failed block are sent to the next    *)
(* usable block beginning at that block's start page, and a run that ends  *)
(* with success has every image byte it read on a block not marked bad.    *)
(* As stated, this fails when start_off lands mid-block (C1_Counter).      *)
(***************************************************************************)
C1_Counter ==
    /\ (write_mode /\ ~failbad /\ retry /\ pc = "commit" /\ ~rewind) =>
          LET st == flash[PageOf(block_off) + start_page_num] IN
          st.inband = "ok" => st.idx[1] = FirstIdx
    /\ (write_mode /\ ~failbad /\ pc = "done" /\ exit_code = "OK"
           /\ \E b \in Blocks : PageFailedIn(b))
          => \A i \in 1 .. Len(image) : Held(i)

(***************************************************************************)
(* C2 - Bad-block skip accounting.  In non-strict mode a block the query   *)
(* reports bad receives no erase, page write, OOB write or mark; the skip  *)
(* leaves bytes_done, the image read position and the buffer unchanged;    *)
(* and the data that would have gone to the block is what the next good    *)
(* block receives, from its first page on.                                 *)
(***************************************************************************)
C2_NoOpOnBadBlock ==
    LET reported == {OpBlock(ops[i]) :
                       i \in {k \in DOMAIN ops : ops[k].res = "bad"}}
    IN \A j \in DOMAIN ops :
          ops[j].op \in Mutating \cup PageCalls \cup {"ffskip"}
             => OpBlock(ops[j]) \notin reported

C2_Placement ==
    (skip_at.active /\ write_mode /\ pc \in {"pages", "commit"}) =>
        /\ start_page_num = 0
        /\ bytes_done = skip_at.done
        /\ IF retry THEN block_buf = skip_at.buf /\ Len(image) = skip_at.imgpos
           ELSE /\ buf_idx[1] = skip_at.imgpos + 1
                /\ block_buf[1] = image[skip_at.imgpos + 1]
        /\ \A q \in 0 .. BlockPages - 1 :
              LET st == flash[PageOf(block_off) + q] IN
              /\ st.inband # "none" =>
                    st.src = BufPage(block_buf, q) /\ st.idx = BufPage(buf_idx, q)
              /\ (~rewind /\ q < page_num /\ q < write_pages)
                    => st.inband = "ok"

\* right after a skip: the counters, the image position, the buffer and the
\* rewind flag are those of before the query (skip_at holds them)
C2_SkipFrame ==
    (/\ skip_at.active /\ pc = "loop" /\ ops # <<>>
     /\ ops[Len(ops)].op = "query" /\ ops[Len(ops)].res = "bad") =>
        /\ bytes_done = skip_at.done
        /\ Len(image) = skip_at.imgpos
        /\ block_buf = skip_at.buf
        /\ rewind = skip_at.rewind
        /\ block_off = ops[Len(ops)].off + EraseSize

C3_Counter ==
    \A i \in DOMAIN ops :
        ops[i].op \in Mutating => ops[i].off + ops[i].len <= max_off

(***************************************************************************)
(* C4 - Strict bad-block mode.  With --failbad the run ends with the       *)
(* bad-block-abort outcome as soon as a block is reported bad or an erase, *)
(* page write or OOB write fails (a failed marking, which ends the run     *)
(* with the general-failure outcome, set aside).  As stated, this fails    *)
(* for a failed erase of the erase step: the block is marked and skipped.  *)
(***************************************************************************)
C4_Counter ==
    failbad =>
        \A i \in DOMAIN ops :
            (\/ ops[i].op = "query" /\ ops[i].res = "bad"
             \/ ops[i].op \in {"erase", "write", "oob"} /\ ~ops[i].ok)
            => \/ pc = "done" /\ exit_code = "BADBLOCK"
               \/ \* the marking itself failed (C5)
                  /\ pc = "done" /\ exit_code = "FAIL"
                  /\ ops[Len(ops)].op = "mark" /\ ~ops[Len(ops)].ok

(***************************************************************************)
(* C5 - Marking failure is fatal.  A failed mark_block_bad is the last     *)
(* device call of the run, which ends with the general-failure outcome;    *)
(* the run goes on to a later block after a failed erase or a failed page  *)
(* only when the failed block has been marked bad.                         *)
(***************************************************************************)
C5_MarkFatal ==
    /\ \A i \in DOMAIN ops :
          (ops[i].op = "mark" /\ ~ops[i].ok)
          => i = Len(ops) /\ pc = "done" /\ exit_code = "FAIL"
    /\ \A i \in DOMAIN ops :
          (ops[i].op \in {"erase"} \cup PageCalls /\ ~ops[i].ok
              /\ (block_off >= ops[i].off + EraseSize
                     \/ ops[Len(ops)].off >= ops[i].off + EraseSize)) =>
             /\ devbad[OpBlock(ops[i])]
             /\ \E k \in i + 1 .. i + 3 :
                   /\ k <= Len(ops)
                   /\ ops[k].op = "mark" /\ ops[k].ok
                   /\ OpBlock(ops[k]) = OpBlock(ops[i])

\* a mark_block_bad has failed
C5_Witness ==
    \E i \in DOMAIN ops : ops[i].op = "mark" /\ ~ops[i].ok

(***************************************************************************)
(* C6 - Trailing-FF skip.  With --ubi, when a block's page loop ends       *)
(* without a failure, the k trailing all-0xFF pages of the buffer (k       *)
(* maximal) have received no page write and no OOB write, every page from  *)
(* the start page up to them has been written with its buffer page, and    *)
(* the pages gone through, skipped ones included, are in block_bytes_done. *)
(* As stated, this fails for a buffer rewound from a mid-block start (C1). *)
(***************************************************************************)
C6_Counter ==
    (ubi /\ write_mode /\ pc = "commit" /\ ~rewind) =>
        LET k == CountTrailingFF(block_buf) IN
        /\ \A q \in 0 .. BlockPages - 1 :
              LET off == block_off + q * WriteSize
                  st  == flash[PageOf(off)]
              IN
              /\ q >= BlockPages - k =>
                    /\ st.inband = "none"
                    /\ \A i \in DOMAIN ops :
                          ops[i].off = off => ops[i].op \notin {"write", "oob"}
              /\ (q >= start_page_num /\ q < BlockPages - k) =>
                    /\ st.inband = "ok"
                    /\ st.src = BufPage(block_buf, q)
        /\ block_bytes_done = (page_num - start_page_num + 1) * WriteSize

(***************************************************************************)
(* C7 - No partially-written data.  As stated: when the run has ended,     *)
(* with whatever outcome, no block that is not marked bad holds a page     *)
(* written in-band without its OOB, a page whose write failed, or the      *)
(* pages left over in a block whose page write failed (C7_Counter).        *)
(* This holds of the runs that end with success or space-exhausted         *)
(* (C7_NoPartialData); a run ending with bad-block-abort or general        *)
(* failure leaves the failed block as it is, unmarked.                     *)
(***************************************************************************)
CleanPage(p, failed) ==
    LET st == flash[p] IN
    /\ st.inband # "partial"
    /\ (genecc /\ st.inband = "ok") => st.oob
    /\ BlockOf(p * WriteSize) \in failed => st.inband = "none"

\* the blocks in which a write_page() failed
FailedBlocks ==
    {OpBlock(ops[i]) :
        i \in {k \in DOMAIN ops : ops[k].op \in PageCalls /\ ~ops[k].ok}}

C7_Counter ==
    (pc = "done" /\ exit_code \in {"OK", "FAIL", "BADBLOCK", "NOSPACE"}) =>
        LET failed == FailedBlocks IN
        \A p \in Pages : ~devbad[BlockOf(p * WriteSize)] => CleanPage(p, failed)

C7_NoPartialData ==
    (pc = "done" /\ exit_code \in {"OK", "NOSPACE"}) =>
        LET failed == FailedBlocks IN
        \A p \in Pages : ~devbad[BlockOf(p * WriteSize)] => CleanPage(p, failed)

\* the run has ended well and a block marked bad still holds pages of a
\* failed attempt
C7_Witness ==
    /\ pc = "done" /\ exit_code \in {"OK", "NOSPACE"}
    /\ \E p \in Pages :
          /\ devbad[BlockOf(p * WriteSize)]
          /\ PageFailedIn(BlockOf(p * WriteSize))
          /\ flash[p].inband # "none"

(***************************************************************************)
(* C8 - Window pre-check.  A request that does not fit between start_off   *)
(* and max_off, or between start_off and the device size, fails before     *)
(* any device call, so that start_off <= max_off <= device size in the     *)
(* block loop.  As stated, this fails for start_off beyond max_off or      *)
(* beyond the device: the unsigned comparisons let the request through.    *)
(***************************************************************************)
C8_Counter ==
    /\ pc \notin {"start", "done"} =>
          start_off <= max_off /\ max_off <= MiSize
    /\ ops # <<>> =>
          /\ req_pages * WriteSize <= max_off - start_off
          /\ req_pages * WriteSize <= MiSize - start_off

(***************************************************************************)
(* C9 - Space exhaustion.  In a run whose window fits below max_off, no    *)
(* device call, the bad-block query included, addresses a block at or      *)
(* beyond max_off or the device end; and a run                             *)
(* that bad blocks have pushed to max_off with data left ends with the     *)
(* space-exhausted outcome.  As stated, this fails: the query is issued    *)
(* before any bound is checked, and fails at the device end.               *)
(***************************************************************************)
C9_Counter ==
    (start_off + req_pages * WriteSize <= max_off) =>
        /\ \A i \in DOMAIN ops :
              ops[i].op \in Mutating \cup {"query"} =>
                 ops[i].off < max_off /\ ops[i].off < MiSize
        /\ (/\ pc = "done"
            /\ \E b \in Blocks : devbad[b]
            /\ bytes_done < req_length
            /\ block_off >= max_off)
           => exit_code = "NOSPACE"

(***************************************************************************)
(* C10 - Write ordering within a page.  An OOB write directly follows a    *)
(* successful in-band write of the same page offset; after a failed        *)
(* in-band write, and without ECC generation, no OOB write is issued.      *)
(***************************************************************************)
C10_OobAfterInband ==
    /\ \A i \in DOMAIN ops :
          ops[i].op = "oob" =>
             /\ genecc
             /\ i > 1
             /\ ops[i - 1].op = "write"
             /\ ops[i - 1].ok
             /\ ops[i - 1].off = ops[i].off
    /\ \A i \in DOMAIN ops :
          (ops[i].op = "write" /\ ~ops[i].ok /\ i < Len(ops)) =>
             ops[i + 1].op # "oob"
    /\ \A i \in DOMAIN ops :
          (ops[i].op = "write" /\ ops[i].ok /\ genecc) =>
             /\ i < Len(ops)
             /\ ops[i + 1].op = "oob"
             /\ ops[i + 1].off = ops[i].off

\* an OOB write has been issued after its page's in-band write, and one
\* in-band write has failed
C10_Witness ==
    /\ \E i \in DOMAIN ops : ops[i].op = "oob" /\ ops[i].ok
    /\ \E i \in DOMAIN ops : ops[i].op = "write" /\ ~ops[i].ok

(***************************************************************************)
(* C11 - End-to-end placement.  A non-strict write at offset 0 of an image *)
(* of n pages, n at most the pages of a block, without --ubi and without   *)
(* --maxoff, on a device whose first block is bad and whose second is      *)
(* good, with no device failure: when the run has ended it has ended with  *)
(* success and bytes_done = n pages; the bad block has received no erase,  *)
(* write, OOB write or mark; pages 0..n-1 of the second block hold the     *)
(* image in order (with their OOB when ECC is generated) and no other page *)
(* of the device has been written.                                         *)
(***************************************************************************)
C11_Case ==
    /\ write_mode /\ ~failbad /\ ~ubi
    /\ start_off = 0 /\ max_off = MiSize
    /\ req_pages >= 1 /\ req_pages <= BlockPages
    /\ faults = 0
    /\ Len(ops) >= 2
    /\ ops[1].op = "query" /\ ops[1].off = 0 /\ ops[1].res = "bad"
    /\ ops[2].op = "query" /\ ops[2].off = EraseSize /\ ops[2].res = "good"

C11_Placement ==
    (C11_Case /\ pc = "done") =>
        /\ exit_code = "OK"
        /\ bytes_done = req_pages * WriteSize
        /\ \A i \in DOMAIN ops :
              OpBlock(ops[i]) = 0 => ops[i].op = "query"
        /\ \A p \in Pages :
              IF p \in BlockPages .. BlockPages + req_pages - 1
              THEN LET q == p - BlockPages IN
                   /\ flash[p].inband = "ok"
                   /\ flash[p].oob = genecc
                   /\ \A j \in 1 .. WriteSize :
                         LET pos == q * WriteSize + j IN
                         IF pos <= req_length
                         THEN /\ flash[p].idx[j] = pos
                              /\ flash[p].src[j] = image[pos]
                         ELSE flash[p].src[j] = FF
              ELSE flash[p] = NoPage
        /\ Len(image) = req_length
        /\ LET writes == SelectSeq(ops, LAMBDA o : o.op = "write") IN
           /\ Len(writes) = req_pages
           /\ \A k \in 1 .. Len(writes) :
                 /\ writes[k].off = EraseSize + (k - 1) * WriteSize
                 /\ writes[k].res = Layout

\* such a run has ended, with the legacy layout and a full block of pages
C11_Witness ==
    /\ C11_Case /\ pc = "done"
    /\ legacy
    /\ req_pages = BlockPages
    /\ flash[2 * BlockPages - 1].oob

(***************************************************************************)
(* Vocabulary of the ECC properties                                        *)
(***************************************************************************)
\* subpage n (from 0) of the page handed to do_genecc
SubOf(src, n) == SubSeq(src, K * n + 1, K * (n + 1))

\* do_genecc has run
Generated == ecc_pc = "ready" /\ ecc_src # <<>>

\* product in GF(2^10) by the finished tables: alpha[indx[a] + indx[b]]
GfMul(a, b) ==
    IF a = 0 \/ b = 0 THEN 0
    ELSE Read(alpha, (Read(indx, a) + Read(indx, b)) % (LENGTH - 1))

\* bits lo .. lo + width - 1 of s
Field(s, lo, width) == (s \div 2 ^ lo) % 2 ^ width

\* the five bytes of four 10-bit symbols, by bit fields
PackedAs(s0, s1, s2, s3) ==
    <<Field(s0, 0, 8),
      Field(s0, 8, 2) + 4 * Field(s1, 0, 6),
      Field(s1, 6, 4) + 16 * Field(s2, 0, 4),
      Field(s2, 4, 6) + 64 * Field(s3, 0, 2),
      Field(s3, 2, 8)>>

\* the four symbols back from the five bytes
Unpacked(b) ==
    <<b[1] + 256 * (b[2] % 4),
      b[2] \div 4 + 64 * (b[3] % 16),
      b[3] \div 16 + 16 * (b[4] % 64),
      b[4] \div 64 + 4 * b[5]>>

(***************************************************************************)
(* C12 - Boot-ROM layout.  After do_genecc with the DM365 RBL layout the   *)
(* staging buffer is written in full: its first pagesz_data bytes are the  *)
(* input page, OOB bytes 16n+6 .. 16n+15 are the ten ECC bytes of subpage  *)
(* n for n = 0..3, and the other 24 OOB bytes are 0xFF, whatever the       *)
(* buffer held before the call.                                            *)
(***************************************************************************)
C12_RblLayout ==
    (Generated /\ dm365_rbl) =>
        /\ DOMAIN mtd_raw_buf = 0 .. RawSize - 1
        /\ Peek(mtd_raw_buf, 0, pagesz_data) = ecc_src
        /\ \A n \in 0 .. SubPages - 1 :
              /\ Peek(mtd_raw_buf, pagesz_data + 16 * n + 6, 10)
                    = gen_subpage_ecc(SubOf(ecc_src, n))
              /\ \A k \in 0 .. 5 :
                    Read(mtd_raw_buf, pagesz_data + 16 * n + k) = FF

\* the layout has been generated for a page whose ECC is not all zero
C12_Witness ==
    /\ Generated /\ dm365_rbl
    /\ Read(mtd_raw_buf, pagesz_data + 6) # 0
    /\ Read(mtd_raw_buf, pagesz_data + 16 + 6) # 0

(***************************************************************************)
(* C13 - Legacy layout.  After do_genecc with the legacy layout the        *)
(* staging buffer is four units, unit n being the data bytes of subpage n, *)
(* six bytes of 0xFF and the ten ECC bytes of subpage n; write_page sends  *)
(* the first pagesz_data bytes of it in-band and the rest as OOB, so that  *)
(* in-band followed by OOB is that same sequence.                          *)
(***************************************************************************)
C13_LegacyLayout ==
    (Generated /\ legacy) =>
        LET unit(n) == SubOf(ecc_src, n) \o <<FF, FF, FF, FF, FF, FF>>
                          \o gen_subpage_ecc(SubOf(ecc_src, n))
            whole == unit(0) \o unit(1) \o unit(2) \o unit(3)
        IN
        /\ Len(whole) = RawSize
        /\ DOMAIN mtd_raw_buf = 0 .. RawSize - 1
        /\ \A x \in 0 .. RawSize - 1 : mtd_raw_buf[x] = whole[x + 1]
        /\ Len(nand_page.inband) = pagesz_data
        /\ Len(nand_page.oob) = RawSize - pagesz_data
        /\ nand_page.inband \o nand_page.oob = whole

\* a legacy page whose ECC is not all zero has been sent
C13_Witness ==
    /\ Generated /\ legacy
    /\ Read(mtd_raw_buf, subsz_data + 6) # 0
    /\ nand_page.oob # <<>>

(***************************************************************************)
(* C14 - Subpage encoder.  For each subpage of the page encoded, the eight *)
(* parity symbols are in 0..1023 and, placed below the data symbols        *)
(* data[i+8] = buf[K-1-i], give a polynomial that is zero at alpha^1 ..    *)
(* alpha^8, the roots of gp: data plus parity is divisible by gp.  Equal   *)
(* subpages get equal ECC bytes.                                           *)
(***************************************************************************)
\* coefficient d of the codeword of subpage buf with parity par
CodeCoeff(buf, par, d) ==
    IF d < 2 * S THEN par[d] ELSE buf[((K - 1) - (d - 2 * S)) + 1]

\* the codeword evaluated at x, by Horner's rule from coefficient d down
RECURSIVE CodeAt(_, _, _, _, _)
CodeAt(buf, par, x, d, acc) ==
    IF d < 0 THEN acc
    ELSE CodeAt(buf, par, x, d - 1,
                BitXor(GfMul(acc, x), CodeCoeff(buf, par, d)))

\* where the ECC bytes of subpage n are in the staging buffer
EccOff(n) ==
    IF legacy THEN subsz_raw * n + subsz_data + 6
    ELSE pagesz_data + OobUnit * n + 6

C14_Parity ==
    Generated =>
        /\ \A n \in 0 .. SubPages - 1 :
              LET buf == SubOf(ecc_src, n)
                  par == SubpageParity(buf)
              IN /\ \A j \in 0 .. 2 * S - 1 : par[j] \in 0 .. LENGTH - 1
                 /\ \A r \in 1 .. 2 * S :
                       CodeAt(buf, par, alphafromindex(r), N - 1, 0) = 0
        /\ \A n, m \in 0 .. SubPages - 1 :
              SubOf(ecc_src, n) = SubOf(ecc_src, m) =>
                 Peek(mtd_raw_buf, EccOff(n), 10)
                    = Peek(mtd_raw_buf, EccOff(m), 10)

\* a page has been encoded whose first subpage reads differently backwards,
\* with a parity symbol above 255, and whose first and last subpages are equal
C14_Witness ==
    /\ Generated
    /\ ecc_src[1] # ecc_src[K]
    /\ SubOf(ecc_src, 0) = SubOf(ecc_src, SubPages - 1)
    /\ Read(mtd_raw_buf, EccOff(0) + 1) % 4 # 0

(***************************************************************************)
(* C15 - Galois tables.  From the entry of genecc_init on, alpha[0] = 1    *)
(* and indx[0] = 1; every alpha[i] filled so far, i >= 1, is alpha[i-1]    *)
(* times x reduced by x^10 + x^3 + 1, lies in 1..1023, and has             *)
(* indx[alpha[i]] = i: no later iteration overwrites an entry of indx.     *)
(***************************************************************************)
\* bit k of v inverted
Flip(v, k) == IF (v \div 2 ^ k) % 2 = 1 THEN v - 2 ^ k ELSE v + 2 ^ k

\* a times x in GF(2^10), reduced by x^10 + x^3 + 1
TimesX(a) == IF 2 * a < LENGTH THEN 2 * a ELSE Flip(Flip(2 * a - LENGTH, 3), 0)

\* the last index of alpha[] filled
Filled ==
    CASE ecc_pc = "init"  -> -1
      [] ecc_pc = "alpha" -> ecc_i - 1
      [] OTHER            -> LENGTH - 1

C15_Tables ==
    (ecc_pc \notin {"idle", "init"}) =>
        /\ Read(alpha, 0) = 1
        /\ Read(indx, 0) = 1
        /\ \A i \in 1 .. Filled :
              /\ alpha[i] = TimesX(alpha[i - 1])
              /\ alpha[i] \in 1 .. LENGTH - 1
              /\ Read(indx, alpha[i]) = i

\* the tables are finished
C15_Witness ==
    /\ ecc_pc = "gp"
    /\ Filled = LENGTH - 1
    /\ Read(alpha, LENGTH - 1) = 1

(***************************************************************************)
(* C16 - Generator polynomial.  After i iterations of the second loop of   *)
(* genecc_init, gp holds the coefficients of (x - alpha^1) .. (x - alpha^i)*)
(* multiplied out term by term; the finished gp is monic of degree 8, has  *)
(* gp[0] = alpha^36, and is zero at alpha^1 .. alpha^8.                    *)
(***************************************************************************)
\* (x - alpha^1) .. (x - alpha^m) by plain polynomial multiplication
RECURSIVE RefGp(_)
RefGp(m) ==
    IF m = 0 THEN [j \in 0 .. 2 * MAX_CORR_ERR |-> IF j = 0 THEN 1 ELSE 0]
    ELSE LET g == RefGp(m - 1) IN
         [j \in 0 .. 2 * MAX_CORR_ERR |->
             BitXor(IF j = 0 THEN 0 ELSE g[j - 1],
                    GfMul(alphafromindex(m), g[j]))]

\* gp evaluated at x, by Horner's rule from coefficient d down
RECURSIVE GpAt(_, _, _)
GpAt(x, d, acc) ==
    IF d < 0 THEN acc ELSE GpAt(x, d - 1, BitXor(GfMul(acc, x), gp[d]))

C16_Generator ==
    /\ ecc_pc = "gp" => gp = RefGp(ecc_i - 1)
    /\ ecc_pc = "ready" =>
          /\ gp = RefGp(2 * MAX_CORR_ERR)
          /\ gp[2 * MAX_CORR_ERR] = 1
          /\ gp[0] = alpha[36]
          /\ \A r \in 1 .. 2 * MAX_CORR_ERR :
                GpAt(alphafromindex(r), 2 * MAX_CORR_ERR, 0) = 0

\* the generator polynomial is finished
C16_Witness ==
    /\ ecc_pc = "ready"
    /\ gp[2 * MAX_CORR_ERR] = 1
    /\ gp[1] # 0

(***************************************************************************)
(* C17 - Parity packing.  The ten ECC bytes of each subpage are its eight  *)
(* parity symbols packed four to five bytes by the bit fields              *)
(* s0[7:0], s0[9:8] | s1[5:0]<<2, s1[9:6] | s2[3:0]<<4,                    *)
(* s2[9:4] | s3[1:0]<<6, s3[9:2]; and of any four consecutive entries of   *)
(* alpha[], the packing gives those bytes, each in 0..255, from which the  *)
(* four symbols are recovered.                                             *)
(***************************************************************************)
C17_Packing ==
    /\ Generated =>
          \A n \in 0 .. SubPages - 1 :
             LET par == SubpageParity(SubOf(ecc_src, n)) IN
             Peek(mtd_raw_buf, EccOff(n), 10)
                = PackedAs(par[0], par[1], par[2], par[3])
                     \o PackedAs(par[4], par[5], par[6], par[7])
    /\ ecc_pc \in {"alpha", "gp"} =>
          \A i \in {Filled} \cap (3 .. LENGTH - 1) :
             LET b == Pack5(alpha[i - 3], alpha[i - 2], alpha[i - 1], alpha[i])
             IN /\ b = PackedAs(alpha[i - 3], alpha[i - 2], alpha[i - 1],
                                alpha[i])
                /\ \A k \in 1 .. 5 : b[k] \in 0 .. 255
                /\ Unpacked(b)
                      = <<alpha[i - 3], alpha[i - 2], alpha[i - 1], alpha[i]>>

\* ECC bytes have been packed from symbols with bits above the low byte
C17_Witness ==
    /\ Generated
    /\ Read(mtd_raw_buf, EccOff(1) + 1) % 4 # 0
    /\ Read(mtd_raw_buf, EccOff(1) + 4) # 0

(***************************************************************************)
(* C18 - Progress commit.  In write mode bytes_done never decreases, and   *)
(* it changes only in the step that ends a block iteration whose page loop *)
(* finished without a page failure (rewind not set), by the page size      *)
(* times the pages gone through in that block, written or skipped.  Bad    *)
(* blocks, failed erases and rewound blocks leave it as it is.             *)
(***************************************************************************)
\* the pages gone through since the last bad-block query
PagesSinceQuery ==
    LET last == CHOOSE i \in DOMAIN ops :
                    /\ ops[i].op = "query"
                    /\ \A k \in i + 1 .. Len(ops) : ops[k].op # "query"
    IN Cardinality({k \in last + 1 .. Len(ops) :
                       ops[k].op \in {"write", "ffskip"}})

C18_ProgressCommit ==
    [][write_mode =>
          /\ bytes_done' >= bytes_done
          /\ bytes_done' # bytes_done =>
                /\ pc = "commit"
                /\ ~rewind
                /\ bytes_done' = bytes_done + WriteSize * PagesSinceQuery]_vars

\* bytes have been committed in a run that has skipped a bad block and
\* rewound another
C18_Witness ==
    /\ write_mode
    /\ bytes_done > WriteSize
    /\ \E i \in DOMAIN ops : ops[i].res = "bad"
    /\ \E i \in DOMAIN ops : ops[i].op \in PageCalls /\ ~ops[i].ok

(***************************************************************************)
(* C19 - Refill versus rewind.  A page failure that lets the run go on     *)
(* sets rewind; while rewind is set no step changes the eraseblock buffer  *)
(* or reads from the image, through bad-block skips and failed erases,     *)
(* and rewind is cleared only by the step that takes the buffer to the     *)
(* page loop of a block.  The buffer and the image position change only   *)
(* in the refill step of a block entered without rewind, and every such    *)
(* step in which next_image_block() returns reads the bytes that follow    *)
(* the ones read before, in order, into the buffer.                        *)
(***************************************************************************)
\* the indices of the eraseblock buffer that hold image bytes
ImageSlots(idx) == {i \in 1 .. EraseSize : idx[i] # 0}

C19_RefillOrRewind ==
    [][/\ (pc = "pages" /\ pc' = "commit" /\ ops' # ops
              /\ ops'[Len(ops')].op = "mark") => rewind'
       /\ rewind =>
             /\ block_buf' = block_buf
             /\ buf_idx' = buf_idx
             /\ image' = image
       /\ (rewind /\ ~rewind') => (pc = "fill" /\ pc' = "pages")
       /\ (block_buf' # block_buf \/ image' # image) =>
             (pc = "fill" /\ write_mode /\ ~rewind)
       /\ (pc = "fill" /\ write_mode /\ ~rewind /\ pc' = "pages") =>
             /\ Len(image') > Len(image)
             /\ SubSeq(image', 1, Len(image)) = image
             /\ {buf_idx'[i] : i \in ImageSlots(buf_idx')}
                   = Len(image) + 1 .. Len(image')
             /\ \A i, j \in ImageSlots(buf_idx') :
                   i < j => buf_idx'[i] < buf_idx'[j]
             /\ \A i \in ImageSlots(buf_idx') :
                   block_buf'[i] = image'[buf_idx'[i]]]_vars

\* rewind is set and the block after the failed one has been skipped as bad
\* or has failed to erase
C19_Witness ==
    /\ rewind /\ pc = "loop"
    /\ image # <<>>
    /\ Len(ops) > 2
    /\ \/ ops[Len(ops)].res = "bad"
       \/ /\ ops[Len(ops)].op = "mark"
          /\ ops[Len(ops) - 1].op = "erase" /\ ~ops[Len(ops) - 1].ok
          /\ ops[Len(ops) - 2].op = "query"

(***************************************************************************)
(* C20 - Erase-only accounting.  With -e and without -w, bytes_done is the *)
(* sum, over the blocks erased successfully and accounted, of the          *)
(* eraseblock size minus start page times page size (the whole block for   *)
(* every block but a first one entered mid-block); bad blocks and blocks   *)
(* whose erase failed add nothing; no page is written and nothing is read  *)
(* from the image; every block from the one holding start_off up to the    *)
(* block in hand has been erased or is marked bad; and a run that ends     *)
(* with success has bytes_done >= req_length.                              *)
(***************************************************************************)
\* what the erase of the block at off accounts for
ErasedBytes(off) ==
    EraseSize
       - (IF start_off > off THEN (start_off - off) \div WriteSize ELSE 0)
            * WriteSize

\* the bytes of the successful erases among ops[1 .. i]
RECURSIVE ErasedSum(_)
ErasedSum(i) ==
    IF i = 0 THEN 0
    ELSE ErasedSum(i - 1)
            + (IF ops[i].op = "erase" /\ ops[i].ok THEN ErasedBytes(ops[i].off)
               ELSE 0)

C20_EraseOnly ==
    (erase_mode /\ ~write_mode /\ pc # "start") =>
        /\ \A i \in DOMAIN ops : ops[i].op \notin {"write", "oob", "ffskip"}
        /\ image = <<>>
        /\ \A i \in 1 .. EraseSize : block_buf[i] = Uninit
        /\ \A p \in Pages : flash[p] = NoPage
        /\ bytes_done =
              IF pc = "fill" THEN ErasedSum(Len(ops) - 1)
              ELSE ErasedSum(Len(ops))
        /\ \A b \in Blocks :
              (b >= BlockOf(start_off) /\ b * EraseSize < block_off) =>
                 \/ devbad[b]
                 \/ \E i \in DOMAIN ops :
                       ops[i].op = "erase" /\ ops[i].ok /\ OpBlock(ops[i]) = b
        /\ (pc = "done" /\ exit_code = "OK") => bytes_done >= req_length

\* an erase-only run from a mid-block start has ended with success after a
\* bad block and a failed erase
C20_Witness ==
    /\ erase_mode /\ ~write_mode
    /\ pc = "done" /\ exit_code = "OK"
    /\ start_off = WriteSize
    /\ \E i \in DOMAIN ops : ops[i].res = "bad"
    /\ \E i \in DOMAIN ops : ops[i].op = "erase" /\ ~ops[i].ok
    /\ \E i \in DOMAIN ops : ops[i].op = "erase" /\ ops[i].ok

(***************************************************************************)
(* C21 - Eraseblock buffer bounds.  At every call of next_image_block,     *)
(* 0 <= buf_start <= buf_end <= eraseblock size, so that no memset and no  *)
(* read leaves block_buf; after the call the bytes before buf_start and    *)
(* from buf_end on are 0xFF and the buf_end - buf_start bytes between are  *)
(* the image bytes the call consumed.  As stated, this fails for a         *)
(* mid-block start with a length that ends inside the first block's span   *)
(* but beyond the block: buf_end passes the eraseblock size.               *)
(***************************************************************************)
C21_Counter ==
    /\ (pc = "fill" /\ write_mode /\ ~rewind) =>
          /\ 0 <= BufStart
          /\ BufStart <= BufEnd
          /\ BufEnd <= EraseSize
    /\ exit_code # "CRASH"
    /\ (pc = "pages" /\ ~retry) =>
          /\ \A i \in 1 .. EraseSize :
                (i <= BufStart \/ i > BufEnd) => block_buf[i] = FF
          /\ {i \in 1 .. EraseSize : buf_idx[i] # 0} = BufStart + 1 .. BufEnd
          /\ \A i \in BufStart + 1 .. BufEnd :
                /\ block_buf[i] = image[buf_idx[i]]
                /\ buf_idx[i] = Len(image) - BufEnd + i

(***************************************************************************)
(* Reading the medium back                                                 *)
(***************************************************************************)
\* the run left page p unwritten as part of a trailing all-0xFF run
SkippedAt(p) ==
    \E k \in DOMAIN ops : ops[k].op = "ffskip" /\ ops[k].off = p * WriteSize

\* page p was written in-band by the run, or skipped by it, in a block that
\* is not marked bad
ReadablePage(p) ==
    /\ ~devbad[BlockOf(p * WriteSize)]
    /\ flash[p].inband = "ok" \/ SkippedAt(p)

\* the in-band bytes of page p as <<value, file position>> pairs; a skipped
\* page reads as 0xFF and holds the file positions it was skipped for
PageBack(p) ==
    IF flash[p].inband = "ok"
    THEN [j \in 1 .. WriteSize |-> <<flash[p].src[j], flash[p].idx[j]>>]
    ELSE LET k == CHOOSE k \in DOMAIN ops :
                     ops[k].op = "ffskip" /\ ops[k].off = p * WriteSize
         IN [j \in 1 .. WriteSize |-> <<FF, ops[k].idx[j]>>]

\* the readable pages from page p on, in ascending address order
RECURSIVE ReadBack(_)
ReadBack(p) ==
    IF p >= NumPages THEN <<>>
    ELSE (IF ReadablePage(p) THEN PageBack(p) ELSE <<>>) \o ReadBack(p + 1)

\* the pages of blocks not marked bad that hold at least one image byte
ImagePages ==
    {p \in Pages :
        /\ ReadablePage(p)
        /\ \E j \in 1 .. WriteSize : PageBack(p)[j][2] # 0}

(***************************************************************************)
(* C22 - Whole image on success.  When a write-mode run ends with success, *)
(* the in-band data of the pages it wrote or skipped in blocks not marked  *)
(* bad, read in ascending address order from start_off, is the first       *)
(* req_length bytes of the image in order followed only by 0xFF; and at    *)
(* each entry of the block loop bytes_done is the page size times the      *)
(* number of those pages that hold image data.  As stated, this fails for  *)
(* a mid-block start whose first block has a page failure (the bug of C1): *)
(* the retry sends a padding page and counts it.                           *)
(***************************************************************************)
C22_Counter ==
    /\ (write_mode /\ pc = "done" /\ exit_code = "OK") =>
          LET back == ReadBack(PageOf(start_off)) IN
          /\ Len(back) >= req_length
          /\ Len(image) >= req_length
          /\ \A i \in 1 .. Len(back) :
                IF i <= req_length
                THEN back[i] = <<image[i], i>>
                ELSE back[i] = <<FF, 0>>
    /\ (write_mode /\ (pc = "loop" \/ (pc = "done" /\ exit_code = "OK"))) =>
          bytes_done = WriteSize * Cardinality(ImagePages)

(***************************************************************************)
(* C23 - Termination.  Every run of the block loop ends, with one of the   *)
(* four exit codes: a run that has not ended can take a step, and a run    *)
(* that has ended holds EXIT_OK, EXIT_FAIL, EXIT_BADBLOCK or EXIT_NOSPACE; *)
(* and in non-strict mode, for a window that fits below max_off, block_off *)
(* is not advanced beyond the first block boundary at or after max_off,    *)
(* nor beyond the device end, however many blocks are bad.  As stated,     *)
(* this fails: bad blocks carry block_off past max_off up to the device    *)
(* end (the bug of C9), and a run can die in next_image_block (the bug of  *)
(* C21).                                                                   *)
(***************************************************************************)
C23_Counter ==
    /\ pc # "done" => ENABLED Next
    /\ pc = "done" => exit_code \in {"OK", "FAIL", "BADBLOCK", "NOSPACE"}
    /\ (/\ pc # "start"
        /\ ~failbad
        /\ start_off + req_pages * WriteSize <= max_off)
       => /\ block_off < max_off + EraseSize
          /\ block_off <= MiSize

\* main() is one sequential process: a step that can be taken is taken
FairSpec == Spec /\ WF_vars(Next)

\* under FairSpec every run ends, the death in next_image_block included
Terminates == <>(pc = "done")

====
